---- MODULE Spec2Model ----
(***************************************************************************)
(* A model of synthDrivers/sapi5.py: the SAPI5 speech synthesizer driver.  *)
(*                                                                         *)
(*  - the settings accessors (_set_pitch, _set_rate, _percentToRate,       *)
(*    _percentToPitch);                                                    *)
(*  - SynthDriver.speak: the translation of a linear speech sequence into  *)
(*    SAPI XML, one action per kind of item of the sequence;               *)
(*  - the audio ducking hooks: ensureWaveOutHooks, and the intercepted     *)
(*    waveOutOpen / waveOutClose with their registry _duckersByHandle;     *)
(*  - the driver object and the engine behind it: terminate, cancel,       *)
(*    pause, and the callbacks of SapiSink (Bookmark, EndStream).          *)
(*                                                                         *)
(* Text is a sequence of one-character strings.  The markup (textList) is  *)
(* the sequence of fragments the code appends, each fragment a tuple whose *)
(* first element names the format string it was made with.                 *)
(***************************************************************************)
EXTENDS Integers, Sequences, FiniteSets, TLC

VARIABLES
    \* ---- driver and engine settings
    _pitch,          \* SynthDriver._pitch
    ttsRate,         \* tts.Rate, in engine units
    ttsVolume,       \* tts.Volume
    voiceLanguage,   \* tts.voice.GetAttribute("language")
    lastRatePercent, \* the percent last given to _set_rate, -1 before any
    \* ---- one call of speak
    pc,              \* "idle", "loop" (inside the for loop), "done"
    speechSequence,  \* the items of the sequence consumed so far
    textList,        \* speak's local textList
    tags,            \* speak's local dict tags, in insertion order
    tagsChanged,     \* speak's local tagsChanged[0]
    openedTags,      \* speak's local openedTags
    spoken,          \* the calls of tts.Speak made by speak: <<text, flags>>
    \* ---- the audio ducking hooks
    duckingSupported,  \* audioDucking.isAudioDuckingSupported()
    _waveOutHooks,     \* the list _waveOutHooks: the names of the functions hooked
    hookAttempts,      \* funcName -> the calls of dllImportTableHooks_hookSingle for it
    hookInstalls,      \* funcName -> those of them that returned a hook
    ensureCalls,       \* the number of calls of ensureWaveOutHooks made
    ensureRaised,      \* whether the last call of ensureWaveOutHooks raised
    osOpen,            \* winmm: the handles of the devices that are open
    _duckersByHandle,  \* the dict _duckersByHandle: handle -> AudioDucker
    nCalls,            \* the number of waveOutOpen / waveOutClose calls started
    tpc,               \* per thread: "idle", "open" or "close" (the real call is made)
    tloc,              \* per thread: the locals of its intercepted call
    nDuckers,          \* the number of AudioDucker objects made; the n-th has id n
    \* ---- what has happened (read by no action)
    lastReturn,        \* the intercepted call that returned last
    closedHandles,     \* the handles an intercepted close has closed
    overlapped,        \* two intercepted calls were in progress at once
    \* ---- the driver object and the engine behind it
    synthAlive,        \* the SynthDriver object exists: synthRef() returns it
    tts,               \* self.tts: "SPVoice" or "None"
    _eventsConnection, \* self._eventsConnection: "connection" or "None"
    ttsAudioStream,    \* self.ttsAudioStream: "ISpAudio" or "None"
    audioState,        \* the SPAudioState the audio stream was last set to
    engineLog,         \* the calls made on ttsAudioStream and on tts by cancel and pause
    notified,          \* the notifications raised, in order
    nOps,              \* the number of driver calls and engine callbacks made
    lastOp             \* the call or callback made last (read by no action)

settingsVars == <<_pitch, ttsRate, ttsVolume, voiceLanguage, lastRatePercent>>
speakVars == <<pc, speechSequence, textList, tags, tagsChanged, openedTags, spoken>>
hookVars == <<duckingSupported, _waveOutHooks, hookAttempts, hookInstalls, ensureCalls,
             ensureRaised>>
waveVars == <<osOpen, _duckersByHandle, nCalls, tpc, tloc, nDuckers, lastReturn,
             closedHandles, overlapped>>
duckVars == <<hookVars, waveVars>>
engineVars == <<synthAlive, tts, _eventsConnection, ttsAudioStream, audioState, engineLog,
               notified, nOps, lastOp>>
vars == <<settingsVars, speakVars, duckVars, engineVars>>

----------------------------------------------------------------------------
(* Bounds *)

\* the number of items of a speech sequence
MaxItems == 4
\* the number of calls of ensureWaveOutHooks
MaxEnsureCalls == 9
\* the wave out handles are 1..MaxHandle
MaxHandle == 2
\* the number of waveOutOpen / waveOutClose calls
MaxCalls == 4
\* the number of calls of cancel, pause and terminate and of engine callbacks
MaxOps == 4

----------------------------------------------------------------------------
(* Settings *)

Percent == 0..100

\* SpeechVoiceSpeakFlags
Async == 1
PurgeBeforeSpeak == 2
IsXML == 8

\* Python's // on integers rounds towards minus infinity, as \div does.
_percentToRateTrunc(percent) ==
    IF percent - 50 >= 0 THEN (percent - 50) \div 5 ELSE -((50 - percent) \div 5)

_percentToRate(percent) == (percent - 50) \div 5

_percentToPitch(percent) == percent \div 2 - 25

\* _get_rate
_get_rate == (ttsRate * 5) + 50

_set_rate(rate) ==
    /\ pc = "idle"
    /\ ttsRate' = _percentToRate(rate)
    /\ lastRatePercent' = rate
    /\ UNCHANGED <<_pitch, ttsVolume, voiceLanguage, speakVars, duckVars,
                 engineVars>>

_set_pitch(value) ==
    /\ pc = "idle"
    /\ _pitch' = value
    /\ UNCHANGED <<ttsRate, ttsVolume, voiceLanguage, lastRatePercent, speakVars, duckVars,
                 engineVars>>

_set_volume(value) ==
    /\ pc = "idle"
    /\ ttsVolume' = value
    /\ UNCHANGED <<_pitch, ttsRate, voiceLanguage, lastRatePercent, speakVars, duckVars,
                 engineVars>>

----------------------------------------------------------------------------
(* speak: helpers *)

\* The tags dict: a sequence of <<tag, attrs>> in insertion order, attrs a
\* sequence of <<attr, val>>.
TagNames(tg) == [i \in 1..Len(tg) |-> tg[i][1]]

HasTag(tg, tag) == \E i \in 1..Len(tg) : tg[i][1] = tag

\* the key assigned always goes last, as after  del tags[tag]
SetTagMoveToEnd(tg, tag, attrs) ==
    Append(SelectSeq(tg, LAMBDA e : e[1] # tag), <<tag, attrs>>)

\* tags[tag] = attrs: an existing key keeps its place, a new key goes last
SetTag(tg, tag, attrs) ==
    IF HasTag(tg, tag)
    THEN [i \in 1..Len(tg) |-> IF tg[i][1] = tag THEN <<tag, attrs>> ELSE tg[i]]
    ELSE Append(tg, <<tag, attrs>>)

\* del tags[tag] without the try: the KeyError leaves speak
DelTagRaising(tg, tag) ==
    [raised |-> ~HasTag(tg, tag), tags |-> SelectSeq(tg, LAMBDA e : e[1] # tag)]

\* try: del tags[tag]  except KeyError: pass
DelTag(tg, tag) ==
    [raised |-> FALSE, tags |-> SelectSeq(tg, LAMBDA e : e[1] # tag)]

\* reversed(seq)
Reversed(s) == [i \in 1..Len(s) |-> s[Len(s) + 1 - i]]

\* the closing tags written in the order the tags were opened
CloseTagsInOrder(ot) == [i \in 1..Len(ot) |-> <<"close", ot[i]>>]

\* for tag in reversed(openedTags): textList.append("</%s>" % tag)
CloseTags(ot) == [i \in 1..Len(ot) |-> <<"close", Reversed(ot)[i]>>]

\* the fragments of one opening tag: "<%s", then ' %s="%s"' per attribute, then ">"
RECURSIVE AttrFragments(_)
AttrFragments(attrs) ==
    IF attrs = <<>> THEN <<>>
    ELSE <<<<"attr", Head(attrs)[1], Head(attrs)[2]>>>> \o AttrFragments(Tail(attrs))

RECURSIVE OpenTags(_)
OpenTags(tg) ==
    IF tg = <<>> THEN <<>>
    ELSE <<<<"open", Head(tg)[1]>>>> \o AttrFragments(Head(tg)[2]) \o <<<<"gt">>>>
         \o OpenTags(Tail(tg))

\* outputTags without the test of tagsChanged
outputTagsAlways(tl, ot, tc, tg) ==
    [textList |-> tl \o CloseTags(ot) \o OpenTags(tg),
     openedTags |-> TagNames(tg),
     tagsChanged |-> FALSE]

\* the inner function outputTags, on (textList, openedTags, tagsChanged[0], tags)
outputTags(tl, ot, tc, tg) ==
    IF ~tc
    THEN [textList |-> tl, openedTags |-> ot, tagsChanged |-> tc]
    ELSE [textList |-> tl \o CloseTags(ot) \o OpenTags(tg),
          openedTags |-> TagNames(tg),
          tagsChanged |-> FALSE]

\* item.replace("<", "&lt;")
RECURSIVE Escape(_)
Escape(text) ==
    IF text = <<>> THEN <<>>
    ELSE (IF Head(text) = "<" THEN <<"&", "l", "t", ";">> ELSE <<Head(text)>>)
         \o Escape(Tail(text))

\* A multiplier is the fraction <<numerator, denominator>>.
IsOne(m) == m[1] = m[2]

\* int(base * multiplier), for base >= 0: int() rounds towards zero
Scaled(base, m) == (base * m[1]) \div m[2]

\* The IPA symbols are written by name: "theta" is U+03B8, "stress" is U+02C8
\* (the primary stress mark).  "k" and "ae" are symbols the table lacks.
Stress == "stress"

IPA_TO_SAPI == [theta |-> "th", s |-> "s"]

\* u" ".join(out)
RECURSIVE Join(_)
Join(out) ==
    IF out = <<>> THEN <<>>
    ELSE IF Len(out) = 1 THEN out
    ELSE <<Head(out), " ">> \o Join(Tail(out))

\* the loop of _convertPhoneme over symbols that all have an entry
RECURSIVE ConvertLoop(_, _)
ConvertLoop(ipa, outAfter) ==
    IF ipa = <<>> THEN (IF outAfter # "" THEN <<outAfter>> ELSE <<>>)
    ELSE IF Head(ipa) = Stress THEN ConvertLoop(Tail(ipa), "1")
    ELSE <<IPA_TO_SAPI[Head(ipa)]>>
         \o (IF outAfter # "" THEN <<outAfter>> ELSE <<>>)
         \o ConvertLoop(Tail(ipa), "")

\* _convertPhoneme that leaves out the symbols it does not know
_convertPhonemeSkipping(lang, ipa) ==
    [raised |-> FALSE,
     sym |-> Join(ConvertLoop(
                 SelectSeq(ipa, LAMBDA c : c = Stress \/ c \in DOMAIN IPA_TO_SAPI), ""))]

\* _convertPhoneme: raised is the LookupError (a KeyError of the table is one)
_convertPhoneme(lang, ipa) ==
    IF lang # "409" THEN [raised |-> TRUE, sym |-> <<>>]
    ELSE IF \E i \in 1..Len(ipa) : ipa[i] # Stress /\ ipa[i] \notin DOMAIN IPA_TO_SAPI
    THEN [raised |-> TRUE, sym |-> <<>>]
    ELSE [raised |-> FALSE, sym |-> Join(ConvertLoop(ipa, ""))]

----------------------------------------------------------------------------
(* speak: the items a sequence is drawn from *)

Texts == {<<"a", "<", "b">>}
Multipliers == {<<1, 1>>, <<2, 1>>}
PitchMultipliers == {<<2, 1>>}
\* <<ipa, text>> of a PhonemeCommand; the text <<>> is None or ""
Phonemes == {<<<<Stress, "s", "theta">>, <<"c", "a", "t">>>>,
             <<<<"s", "k">>, <<"c", "a", "t">>>>,
             <<<<"k">>, <<>>>>}
Indexes == {7}
BreakTimes == {250}

----------------------------------------------------------------------------
(* speak *)

\* lines 313-340: the locals of speak, and the pitch tag that is always there
SpeakBegin ==
    /\ pc = "idle"
    /\ pc' = "loop"
    /\ speechSequence' = <<>>
    /\ textList' = <<>>
    /\ tags' = <<<<"pitch", <<<<"absmiddle", _percentToPitch(_pitch)>>>>>>>>
    /\ tagsChanged' = TRUE
    /\ openedTags' = <<>>
    /\ UNCHANGED <<spoken, settingsVars, engineVars, duckVars>>

InLoop == pc = "loop" /\ Len(speechSequence) < MaxItems

\* isinstance(item, str)
SpeakStr(item) ==
    /\ InLoop
    /\ LET o == outputTags(textList, openedTags, tagsChanged, tags) IN
        /\ textList' = Append(o.textList, <<"text", Escape(item)>>)
        /\ openedTags' = o.openedTags
        /\ tagsChanged' = o.tagsChanged
    /\ speechSequence' = Append(speechSequence, <<"str", item>>)
    /\ UNCHANGED <<pc, tags, spoken, settingsVars, engineVars, duckVars>>

SpeakIndexCommand(index) ==
    /\ InLoop
    /\ textList' = Append(textList, <<"bookmark", index>>)
    /\ speechSequence' = Append(speechSequence, <<"IndexCommand", index>>)
    /\ UNCHANGED <<pc, tags, tagsChanged, openedTags, spoken, settingsVars, engineVars, duckVars>>

\* the CharacterModeCommand sets tagsChanged only when it changed tags
SpeakCharacterModeCommandIfChanged(state) ==
    /\ InLoop
    /\ tags' = IF state THEN SetTag(tags, "spell", <<>>) ELSE DelTag(tags, "spell").tags
    /\ tagsChanged' = (tagsChanged \/ tags' # tags)
    /\ speechSequence' = Append(speechSequence, <<"CharacterModeCommand", state>>)
    /\ UNCHANGED <<pc, textList, openedTags, spoken, settingsVars, engineVars, duckVars>>

SpeakCharacterModeCommand(state) ==
    /\ InLoop
    /\ LET d == DelTag(tags, "spell") IN
        IF state
        THEN tags' = SetTag(tags, "spell", <<>>) /\ tagsChanged' = TRUE /\ pc' = pc
        ELSE IF d.raised
        THEN pc' = "raised" /\ UNCHANGED <<tags, tagsChanged>>
        ELSE tags' = d.tags /\ tagsChanged' = TRUE /\ pc' = pc
    /\ speechSequence' = Append(speechSequence, <<"CharacterModeCommand", state>>)
    /\ UNCHANGED <<textList, openedTags, spoken, settingsVars, engineVars, duckVars>>

SpeakBreakCommand(time) ==
    /\ InLoop
    /\ textList' = Append(textList, <<"silence", time>>)
    /\ speechSequence' = Append(speechSequence, <<"BreakCommand", time>>)
    /\ UNCHANGED <<pc, tags, tagsChanged, openedTags, spoken, settingsVars, engineVars, duckVars>>

SpeakPitchCommand(multiplier) ==
    /\ InLoop
    /\ tags' = SetTag(tags, "pitch",
                      <<<<"absmiddle", _percentToPitch(Scaled(_pitch, multiplier))>>>>)
    /\ tagsChanged' = TRUE
    /\ speechSequence' = Append(speechSequence, <<"PitchCommand", multiplier>>)
    /\ UNCHANGED <<pc, textList, openedTags, spoken, settingsVars, engineVars, duckVars>>

SpeakVolumeCommand(multiplier) ==
    /\ InLoop
    /\ LET d == DelTag(tags, "volume") IN
        IF ~IsOne(multiplier)
        THEN /\ tags' = SetTag(tags, "volume", <<<<"level", Scaled(ttsVolume, multiplier)>>>>)
             /\ tagsChanged' = TRUE /\ pc' = pc
        ELSE IF d.raised
        THEN pc' = "raised" /\ UNCHANGED <<tags, tagsChanged>>
        ELSE tags' = d.tags /\ tagsChanged' = TRUE /\ pc' = pc
    /\ speechSequence' = Append(speechSequence, <<"VolumeCommand", multiplier>>)
    /\ UNCHANGED <<textList, openedTags, spoken, settingsVars, engineVars, duckVars>>

SpeakRateCommand(multiplier) ==
    /\ InLoop
    /\ LET d == DelTag(tags, "rate") IN
        IF ~IsOne(multiplier)
        THEN /\ tags' = SetTag(tags, "rate",
                               <<<<"absspeed", _percentToRate(Scaled(_get_rate, multiplier))>>>>)
             /\ tagsChanged' = TRUE /\ pc' = pc
        ELSE IF d.raised
        THEN pc' = "raised" /\ UNCHANGED <<tags, tagsChanged>>
        ELSE tags' = d.tags /\ tagsChanged' = TRUE /\ pc' = pc
    /\ speechSequence' = Append(speechSequence, <<"RateCommand", multiplier>>)
    /\ UNCHANGED <<textList, openedTags, spoken, settingsVars, engineVars, duckVars>>

SpeakPhonemeCommand(ipa, text) ==
    /\ InLoop
    /\ LET c == _convertPhoneme(voiceLanguage, ipa) IN
        textList' = IF ~c.raised THEN Append(textList, <<"pron", c.sym, text>>)
                    ELSE IF text # <<>> THEN Append(textList, <<"text", text>>)
                    ELSE textList
    /\ speechSequence' = Append(speechSequence, <<"PhonemeCommand", ipa, text>>)
    /\ UNCHANGED <<pc, tags, tagsChanged, openedTags, spoken, settingsVars, engineVars, duckVars>>

\* a SpeechCommand the loop has no branch for (a LangChangeCommand is one)
SpeakSpeechCommand ==
    /\ InLoop
    /\ speechSequence' = Append(speechSequence, <<"SpeechCommand">>)
    /\ UNCHANGED <<pc, textList, tags, tagsChanged, openedTags, spoken, settingsVars, engineVars, duckVars>>

\* an unknown item raises instead of being logged
SpeakUnknownAborts ==
    /\ InLoop
    /\ pc' = "raised"
    /\ speechSequence' = Append(speechSequence, <<"unknown">>)
    /\ UNCHANGED <<textList, tags, tagsChanged, openedTags, spoken, settingsVars, engineVars,
                   duckVars>>

\* an item that is neither a str nor a SpeechCommand
SpeakUnknown ==
    /\ InLoop
    /\ speechSequence' = Append(speechSequence, <<"unknown">>)
    /\ UNCHANGED <<pc, textList, tags, tagsChanged, openedTags, spoken, settingsVars, engineVars, duckVars>>

\* lines 392-399: the sequence has ended
SpeakEnd ==
    /\ pc = "loop"
    /\ LET o == outputTags(textList, openedTags, TRUE, <<>>) IN
        /\ textList' = o.textList
        /\ openedTags' = o.openedTags
        /\ tagsChanged' = o.tagsChanged
        /\ spoken' = Append(spoken, <<o.textList, {IsXML, Async}>>)
    /\ tags' = <<>>
    /\ pc' = "done"
    /\ UNCHANGED <<speechSequence, settingsVars, engineVars, duckVars>>

Speak ==
    \/ SpeakBegin
    \/ \E item \in Texts : SpeakStr(item)
    \/ \E index \in Indexes : SpeakIndexCommand(index)
    \/ \E state \in BOOLEAN : SpeakCharacterModeCommand(state)
    \/ \E time \in BreakTimes : SpeakBreakCommand(time)
    \/ \E m \in PitchMultipliers : SpeakPitchCommand(m)
    \/ \E m \in Multipliers : SpeakVolumeCommand(m)
    \/ \E m \in Multipliers : SpeakRateCommand(m)
    \/ \E p \in Phonemes : SpeakPhonemeCommand(p[1], p[2])
    \/ SpeakSpeechCommand
    \/ SpeakUnknown
    \/ SpeakEnd

----------------------------------------------------------------------------
(* The audio ducking hooks *)

Threads == {"t1", "t2"}
Handles == 1..MaxHandle
HookOutcomes == {"hooked", "null", "encodeError"}

\* What the real winmm function does: it returns value, or raises a
\* WindowsError whose winerror is value.  4 is MMSYSERR_ALLOCATED, 5 is
\* MMSYSERR_INVALHANDLE.
RealSuccess == [raised |-> FALSE, value |-> 0]
RealFailures == {[raised |-> FALSE, value |-> 4], [raised |-> TRUE, value |-> 5]}

\* FunctionHooker.__init__: outcome is what dllImportTableHooks_hookSingle did
\* (a hook, NULL, or the UnicodeEncodeError of an argument)
FunctionHooker(outcome) == [raised |-> outcome # "hooked"]

HookNames == {"waveOutOpen", "waveOutClose"}

\* ensureWaveOutHooks without the test of isAudioDuckingSupported
ensureWaveOutHooksUnsupported(hooks, supported, o1, o2) ==
    IF hooks # <<>>
    THEN [hooks |-> hooks, tried |-> {}, raised |-> FALSE]
    ELSE IF FunctionHooker(o1).raised
    THEN [hooks |-> hooks, tried |-> {"waveOutOpen"}, raised |-> TRUE]
    ELSE IF FunctionHooker(o2).raised
    THEN [hooks |-> Append(hooks, "waveOutOpen"), tried |-> HookNames, raised |-> TRUE]
    ELSE [hooks |-> hooks \o <<"waveOutOpen", "waveOutClose">>, tried |-> HookNames,
          raised |-> FALSE]

\* ensureWaveOutHooks without the test of _waveOutHooks
ensureWaveOutHooksAgain(hooks, supported, o1, o2) ==
    IF ~supported
    THEN [hooks |-> hooks, tried |-> {}, raised |-> FALSE]
    ELSE IF FunctionHooker(o1).raised
    THEN [hooks |-> hooks, tried |-> {"waveOutOpen"}, raised |-> TRUE]
    ELSE IF FunctionHooker(o2).raised
    THEN [hooks |-> Append(hooks, "waveOutOpen"), tried |-> HookNames, raised |-> TRUE]
    ELSE [hooks |-> hooks \o <<"waveOutOpen", "waveOutClose">>, tried |-> HookNames,
          raised |-> FALSE]

\* ensureWaveOutHooks: the list after the call, the functions a FunctionHooker
\* was made for, and whether the RuntimeError of one left the call
ensureWaveOutHooks(hooks, supported, o1, o2) ==
    IF ~(hooks = <<>> /\ supported)
    THEN [hooks |-> hooks, tried |-> {}, raised |-> FALSE]
    ELSE IF FunctionHooker(o1).raised
    THEN [hooks |-> hooks, tried |-> {"waveOutOpen"}, raised |-> TRUE]
    ELSE IF FunctionHooker(o2).raised
    THEN [hooks |-> Append(hooks, "waveOutOpen"), tried |-> HookNames, raised |-> TRUE]
    ELSE [hooks |-> hooks \o <<"waveOutOpen", "waveOutClose">>, tried |-> HookNames,
          raised |-> FALSE]

\* SynthDriver.__init__ calls it
EnsureWaveOutHooks(o1, o2) ==
    /\ ensureCalls < MaxEnsureCalls
    /\ LET e == ensureWaveOutHooks(_waveOutHooks, duckingSupported, o1, o2)
           o == [f \in HookNames |-> IF f = "waveOutOpen" THEN o1 ELSE o2]
       IN
        /\ _waveOutHooks' = e.hooks
        /\ hookAttempts' = [f \in HookNames |->
                               hookAttempts[f] + (IF f \in e.tried THEN 1 ELSE 0)]
        /\ hookInstalls' = [f \in HookNames |->
                               hookInstalls[f]
                               + (IF f \in e.tried /\ ~FunctionHooker(o[f]).raised
                                  THEN 1 ELSE 0)]
        /\ ensureRaised' = e.raised
    /\ ensureCalls' = ensureCalls + 1
    /\ UNCHANGED <<duckingSupported, waveVars, settingsVars, engineVars, speakVars>>

\* sapi.dll's import of funcName goes through the hook
Hooked(funcName) == \E i \in 1..Len(_waveOutHooks) : _waveOutHooks[i] = funcName

EmptyDict == [h \in {} |-> 0]
DictSet(d, k, v) == [h \in DOMAIN d \cup {k} |-> IF h = k THEN v ELSE d[h]]

\* real: what the real function did
NoLocals == [ptr |-> FALSE, h |-> 0, real |-> RealSuccess, exc |-> FALSE, res |-> 0]

\* lastReturn: exc is an exception that left the call, popped the id of the
\* ducker that pop returned (0 for None or no pop)
NoReturn == [op |-> "none", ptr |-> FALSE, h |-> 0, real |-> RealSuccess, res |-> 0,
             exc |-> FALSE, popped |-> 0]

Busy(t) == \E u \in Threads \ {t} : tpc[u] # "idle"

\* the real call without the except clause: the WindowsError goes on
CallRealUncaught(out) == [exc |-> out.raised, res |-> out.value]

\* try: res = windll.winmm.f(...) or 0   except WindowsError as e: res = e.winerror
CallReal(out) == [exc |-> FALSE, res |-> out.value]

\* lines 92-97 of waveOutOpen.  ptr: pWaveOutHandle is not NULL; h: the handle
\* winmm writes through it, 0 when it writes none.
WaveOutOpenCall(t, ptr, h, out) ==
    /\ Hooked("waveOutOpen")
    /\ tpc[t] = "idle"
    /\ nCalls < MaxCalls
    /\ IF out = RealSuccess /\ ptr
       THEN h \in Handles \ osOpen /\ osOpen' = osOpen \cup {h}
       ELSE h = 0 /\ osOpen' = osOpen
    /\ nCalls' = nCalls + 1
    /\ tpc' = [tpc EXCEPT ![t] = "open"]
    /\ tloc' = [tloc EXCEPT ![t] = [ptr |-> ptr, h |-> h, real |-> out,
                                    exc |-> CallReal(out).exc, res |-> CallReal(out).res]]
    /\ overlapped' = (overlapped \/ Busy(t))
    /\ UNCHANGED <<_duckersByHandle, nDuckers, lastReturn, closedHandles, hookVars,
                   settingsVars, engineVars, speakVars>>

\* lines 98-103 with the ducker recorded only when enable() succeeded
waveOutOpenTailIfEnabled(dict, l, d) ==
    IF l.res = 0 /\ l.ptr
    THEN [made |-> TRUE, dict |-> IF d.enabled THEN DictSet(dict, l.h, d) ELSE dict]
    ELSE [made |-> FALSE, dict |-> dict]

\* lines 98-106 of waveOutOpen: whether an AudioDucker was made, and the dict
\* after them.  d: the AudioDucker, enabled what d.enable() returned
waveOutOpenTail(dict, l, d) ==
    IF l.res = 0 /\ l.ptr
    THEN [made |-> TRUE, dict |-> DictSet(dict, l.h, d)]
    ELSE [made |-> FALSE, dict |-> dict]

WaveOutOpenReturn(t, enabled) ==
    /\ tpc[t] = "open"
    /\ LET o == waveOutOpenTail(_duckersByHandle, tloc[t],
                                [id |-> nDuckers + 1, enabled |-> enabled])
       IN
        IF tloc[t].exc
        THEN UNCHANGED <<_duckersByHandle, nDuckers>>
        ELSE /\ _duckersByHandle' = o.dict
             /\ nDuckers' = IF o.made THEN nDuckers + 1 ELSE nDuckers
    /\ lastReturn' = [op |-> "open", ptr |-> tloc[t].ptr, h |-> tloc[t].h,
                      real |-> tloc[t].real, res |-> tloc[t].res, exc |-> tloc[t].exc,
                      popped |-> 0]
    /\ tpc' = [tpc EXCEPT ![t] = "idle"]
    /\ tloc' = [tloc EXCEPT ![t] = NoLocals]
    /\ UNCHANGED <<osOpen, nCalls, closedHandles, overlapped, hookVars, settingsVars, engineVars,
                   speakVars>>

\* lines 111-116 of waveOutClose.  The real call succeeds for a handle that is
\* open and that its caller can have: the open that got it has returned.
WaveOutCloseCall(t, h, out) ==
    /\ Hooked("waveOutClose")
    /\ tpc[t] = "idle"
    /\ nCalls < MaxCalls
    /\ IF out = RealSuccess
       THEN /\ h \in osOpen
            /\ \A u \in Threads : ~(tpc[u] = "open" /\ tloc[u].h = h)
            /\ osOpen' = osOpen \ {h}
       ELSE osOpen' = osOpen
    /\ nCalls' = nCalls + 1
    /\ tpc' = [tpc EXCEPT ![t] = "close"]
    /\ tloc' = [tloc EXCEPT ![t] = [ptr |-> FALSE, h |-> h, real |-> out,
                                    exc |-> CallReal(out).exc, res |-> CallReal(out).res]]
    /\ overlapped' = (overlapped \/ Busy(t))
    /\ UNCHANGED <<_duckersByHandle, nDuckers, lastReturn, closedHandles, hookVars,
                   settingsVars, engineVars, speakVars>>

\* dict.pop(k, None): the value popped (None is NoDucker) and the dict left
NoDucker == [id |-> 0, enabled |-> FALSE]
DictPopDefault(d, k) ==
    [raised |-> FALSE,
     value |-> IF k \in DOMAIN d THEN d[k] ELSE NoDucker,
     dict |-> [h \in DOMAIN d \ {k} |-> d[h]]]

\* lines 117-118 with  del _duckersByHandle[waveOutHandle]: an absent key is a KeyError
waveOutCloseTailDel(dict, l) ==
    IF l.res = 0 /\ l.h # 0
    THEN [DictPopDefault(dict, l.h) EXCEPT !.raised = l.h \notin DOMAIN dict]
    ELSE [raised |-> FALSE, value |-> NoDucker, dict |-> dict]

\* lines 117-121 of waveOutClose: what the pop returned and the dict after it
waveOutCloseTail(dict, l) ==
    IF l.res = 0 /\ l.h # 0
    THEN DictPopDefault(dict, l.h)
    ELSE [raised |-> FALSE, value |-> NoDucker, dict |-> dict]

WaveOutCloseReturn(t) ==
    /\ tpc[t] = "close"
    /\ LET c == waveOutCloseTail(_duckersByHandle, tloc[t]) IN
        IF tloc[t].exc
        THEN /\ lastReturn' = [op |-> "close", ptr |-> FALSE, h |-> tloc[t].h,
                               real |-> tloc[t].real, res |-> tloc[t].res, exc |-> TRUE,
                               popped |-> 0]
             /\ UNCHANGED _duckersByHandle
        ELSE /\ lastReturn' = [op |-> "close", ptr |-> FALSE, h |-> tloc[t].h,
                               real |-> tloc[t].real, res |-> tloc[t].res,
                               exc |-> c.raised, popped |-> c.value.id]
             /\ _duckersByHandle' = c.dict
    /\ closedHandles' = IF tloc[t].res = 0 THEN closedHandles \cup {tloc[t].h}
                        ELSE closedHandles
    /\ tpc' = [tpc EXCEPT ![t] = "idle"]
    /\ tloc' = [tloc EXCEPT ![t] = NoLocals]
    /\ UNCHANGED <<osOpen, nCalls, nDuckers, overlapped, hookVars, settingsVars, engineVars, speakVars>>

\* sapi.dll opens a device while waveOutOpen is not hooked
DirectOpen(h) ==
    /\ ~Hooked("waveOutOpen")
    /\ nCalls < MaxCalls
    /\ h \notin osOpen
    /\ osOpen' = osOpen \cup {h}
    /\ nCalls' = nCalls + 1
    /\ UNCHANGED <<_duckersByHandle, tpc, tloc, nDuckers, lastReturn, closedHandles, overlapped,
                   hookVars, settingsVars, engineVars, speakVars>>

\* sapi.dll closes a device while waveOutClose is not hooked
DirectClose(h) ==
    /\ ~Hooked("waveOutClose")
    /\ nCalls < MaxCalls
    /\ h \in osOpen
    /\ osOpen' = osOpen \ {h}
    /\ nCalls' = nCalls + 1
    /\ UNCHANGED <<_duckersByHandle, tpc, tloc, nDuckers, lastReturn, closedHandles, overlapped,
                   hookVars, settingsVars, engineVars, speakVars>>

Hooks == \E o1, o2 \in HookOutcomes : EnsureWaveOutHooks(o1, o2)

Wave ==
    \/ \E t \in Threads, ptr \in BOOLEAN, h \in Handles \cup {0},
          out \in {RealSuccess} \cup RealFailures : WaveOutOpenCall(t, ptr, h, out)
    \/ \E t \in Threads, enabled \in BOOLEAN : WaveOutOpenReturn(t, enabled)
    \/ \E t \in Threads, h \in Handles \cup {0},
          out \in {RealSuccess} \cup RealFailures : WaveOutCloseCall(t, h, out)
    \/ \E t \in Threads : WaveOutCloseReturn(t)
    \/ \E h \in Handles : DirectOpen(h)
    \/ \E h \in Handles : DirectClose(h)

----------------------------------------------------------------------------
(* The driver object and the engine: terminate, cancel, pause and SapiSink *)

\* the members of SPAudioState
SPAudioState == {"CLOSED", "STOP", "PAUSE", "RUN"}

\* the bookmarkId of a Bookmark event
BookmarkIds == {7, 9}

\* a call on the audio stream or on tts: setState(arg, 0) or Speak(arg, flags)
SetStateCall(state) == [call |-> "setState", arg |-> state, flags |-> {}]
SpeakCall(text, flags) == [call |-> "Speak", arg |-> text, flags |-> flags]

\* the state the audio stream is left in by these calls
RECURSIVE StateAfter(_, _)
StateAfter(state, calls) ==
    IF calls = <<>> THEN state
    ELSE StateAfter(IF Head(calls).call = "setState" THEN Head(calls).arg ELSE state,
                    Tail(calls))

\* cancel with the purge made before the audio stream is stopped
cancelCallsPurgeFirst(stream) ==
    <<SpeakCall("None", {Async, PurgeBeforeSpeak})>>
    \o (IF stream # "None" THEN <<SetStateCall("STOP")>> ELSE <<>>)

\* lines 404-406: the calls cancel makes, in order
cancelCalls(stream) ==
    (IF stream # "None" THEN <<SetStateCall("STOP")>> ELSE <<>>)
    \o <<SpeakCall("None", {Async, PurgeBeforeSpeak})>>

\* lines 412-413: the calls pause makes
pauseCalls(stream, switch) ==
    IF stream # "None"
    THEN <<SetStateCall(IF switch THEN "PAUSE" ELSE "RUN")>>
    ELSE <<>>

\* a reference that keeps the driver: it never returns None
synthRefStrong == "synth"

\* self.synthRef(): the weak reference of line 263 returns the driver or None
synthRef == IF synthAlive THEN "synth" ELSE "None"

NoOp == [op |-> "none", arg |-> 0, alive |-> TRUE, logged |-> 0, events |-> 0]

\* what lastOp records of a call made now
ThisOp(op, arg) ==
    [op |-> op, arg |-> arg, alive |-> synthAlive, logged |-> Len(engineLog),
     events |-> Len(notified)]

\* lines 194-196
terminate ==
    /\ synthAlive
    /\ nOps < MaxOps
    /\ _eventsConnection' = "None"
    /\ tts' = "None"
    /\ nOps' = nOps + 1
    /\ lastOp' = ThisOp("terminate", 0)
    /\ UNCHANGED <<synthAlive, ttsAudioStream, audioState, engineLog, notified,
                   settingsVars, speakVars, duckVars>>

\* The last reference to the driver is dropped: from now on the weak reference
\* returns None.  The connection the driver owns is released after that.
SynthDies ==
    /\ synthAlive
    /\ nOps < MaxOps
    /\ synthAlive' = FALSE
    /\ nOps' = nOps + 1
    /\ lastOp' = ThisOp("SynthDies", 0)
    /\ UNCHANGED <<tts, _eventsConnection, ttsAudioStream, audioState, engineLog, notified,
                   settingsVars, speakVars, duckVars>>

\* the attributes of the dead driver are released
ConnectionReleased ==
    /\ ~synthAlive
    /\ _eventsConnection # "None"
    /\ nOps < MaxOps
    /\ _eventsConnection' = "None"
    /\ tts' = "None"
    /\ nOps' = nOps + 1
    /\ lastOp' = ThisOp("ConnectionReleased", 0)
    /\ UNCHANGED <<synthAlive, ttsAudioStream, audioState, engineLog, notified,
                   settingsVars, speakVars, duckVars>>

\* lines 401-406; called on a driver that was not terminated
cancel ==
    /\ synthAlive
    /\ tts # "None"
    /\ nOps < MaxOps
    /\ engineLog' = engineLog \o cancelCalls(ttsAudioStream)
    /\ audioState' = StateAfter(audioState, cancelCalls(ttsAudioStream))
    /\ nOps' = nOps + 1
    /\ lastOp' = ThisOp("cancel", 0)
    /\ UNCHANGED <<synthAlive, tts, _eventsConnection, ttsAudioStream, notified,
                   settingsVars, speakVars, duckVars>>

\* lines 408-413
pause(switch) ==
    /\ synthAlive
    /\ nOps < MaxOps
    /\ engineLog' = engineLog \o pauseCalls(ttsAudioStream, switch)
    /\ audioState' = StateAfter(audioState, pauseCalls(ttsAudioStream, switch))
    /\ nOps' = nOps + 1
    /\ lastOp' = ThisOp("pause", IF switch THEN 1 ELSE 0)
    /\ UNCHANGED <<synthAlive, tts, _eventsConnection, ttsAudioStream, notified,
                   settingsVars, speakVars, duckVars>>

\* lines 140-145.  The engine calls the sink while the connection of line 263
\* exists.
Bookmark(bookmarkId) ==
    /\ _eventsConnection # "None"
    /\ nOps < MaxOps
    /\ LET synth == synthRef IN
        IF synth = "None"
        THEN UNCHANGED notified
        ELSE notified' = Append(notified, [name |-> "synthIndexReached",
                                           index |-> bookmarkId])
    /\ nOps' = nOps + 1
    /\ lastOp' = ThisOp("Bookmark", bookmarkId)
    /\ UNCHANGED <<synthAlive, tts, _eventsConnection, ttsAudioStream, audioState, engineLog,
                   settingsVars, speakVars, duckVars>>

\* lines 147-152; synthDoneSpeaking has no index: -1
EndStream ==
    /\ _eventsConnection # "None"
    /\ nOps < MaxOps
    /\ LET synth == synthRef IN
        IF synth = "None"
        THEN UNCHANGED notified
        ELSE notified' = Append(notified, [name |-> "synthDoneSpeaking", index |-> -1])
    /\ nOps' = nOps + 1
    /\ lastOp' = ThisOp("EndStream", 0)
    /\ UNCHANGED <<synthAlive, tts, _eventsConnection, ttsAudioStream, audioState, engineLog,
                   settingsVars, speakVars, duckVars>>

Engine ==
    \/ terminate
    \/ SynthDies
    \/ ConnectionReleased
    \/ cancel
    \/ \E switch \in BOOLEAN : pause(switch)
    \/ \E bookmarkId \in BookmarkIds : Bookmark(bookmarkId)
    \/ EndStream

----------------------------------------------------------------------------
(* The specifications *)

Settings ==
    \/ \E rate \in Percent : _set_rate(rate)
    \/ \E value \in Percent : _set_pitch(value)

\* the settings as __init__ and SAPI leave them
InitSettings(languages) ==
    /\ _pitch = 50
    /\ ttsRate = 0
    /\ ttsVolume = 100
    /\ voiceLanguage \in languages
    /\ lastRatePercent = -1

InitSpeech ==
    /\ pc = "idle"
    /\ speechSequence = <<>>
    /\ textList = <<>>
    /\ tags = <<>>
    /\ tagsChanged = FALSE
    /\ openedTags = <<>>
    /\ spoken = <<>>

\* the module as its import leaves it
InitDuck(supported) ==
    /\ duckingSupported \in supported
    /\ _waveOutHooks = <<>>
    /\ hookAttempts = [f \in HookNames |-> 0]
    /\ hookInstalls = [f \in HookNames |-> 0]
    /\ ensureCalls = 0
    /\ ensureRaised = FALSE
    /\ osOpen = {}
    /\ _duckersByHandle = EmptyDict
    /\ nCalls = 0
    /\ tpc = [t \in Threads |-> "idle"]
    /\ tloc = [t \in Threads |-> NoLocals]
    /\ nDuckers = 0
    /\ lastReturn = NoReturn
    /\ closedHandles = {}
    /\ overlapped = FALSE

\* the driver as __init__ leaves it; streams: what QueryInterface(ISpAudio) gave
InitEngine(streams) ==
    /\ synthAlive = TRUE
    /\ tts = "SPVoice"
    /\ _eventsConnection = "connection"
    /\ ttsAudioStream \in streams
    /\ audioState = "CLOSED"
    /\ engineLog = <<>>
    /\ notified = <<>>
    /\ nOps = 0
    /\ lastOp = NoOp

Init ==
    /\ InitSettings({"409", "809"}) /\ InitSpeech /\ InitDuck(BOOLEAN)
    /\ InitEngine({"ISpAudio", "None"})

Next ==
    \/ Settings
    \/ \E value \in Percent : _set_volume(value)
    \/ Speak
    \/ Hooks
    \/ Wave
    \/ Engine

Spec == Init /\ [][Next]_vars

\* The settings, and the start of a speak call that reads them
InitSettingsOnly ==
    InitSettings({"409"}) /\ InitSpeech /\ InitDuck({FALSE}) /\ InitEngine({"ISpAudio"})
NextSettings == Settings \/ SpeakBegin \/ SpeakEnd
SpecSettings == InitSettingsOnly /\ [][NextSettings]_vars

\* One call of speak, the settings as __init__ leaves them
InitSpeak ==
    InitSettings({"409", "809"}) /\ InitSpeech /\ InitDuck({FALSE}) /\ InitEngine({"ISpAudio"})
SpecSpeak == InitSpeak /\ [][Speak]_vars

\* One call of speak over fewer items, every kind of item among them
NextDirectives ==
    \/ SpeakBegin
    \/ \E item \in Texts : SpeakStr(item)
    \/ \E index \in Indexes : SpeakIndexCommand(index)
    \/ \E state \in BOOLEAN : SpeakCharacterModeCommand(state)
    \/ \E m \in PitchMultipliers : SpeakPitchCommand(m)
    \/ \E m \in Multipliers : SpeakVolumeCommand(m)
    \/ SpeakRateCommand(<<1, 1>>)
    \/ SpeakPhonemeCommand(<<"s", "k">>, <<"c", "a", "t">>)
    \/ SpeakSpeechCommand
    \/ SpeakUnknown
    \/ SpeakEnd
SpecDirectives == InitSettingsOnly /\ [][NextDirectives]_vars

\* One call of speak after the pitch was set, with pitch changes of 1 and 3/2
Pitches == {0, 33, 100}
PitchChanges == {<<1, 1>>, <<3, 2>>}
NextPitch ==
    \/ \E value \in Pitches : _set_pitch(value)
    \/ SpeakBegin
    \/ \E item \in Texts : SpeakStr(item)
    \/ \E state \in BOOLEAN : SpeakCharacterModeCommand(state)
    \/ \E m \in PitchChanges : SpeakPitchCommand(m)
    \/ SpeakVolumeCommand(<<2, 1>>)
    \/ SpeakPhonemeCommand(<<"s", "k">>, <<"c", "a", "t">>)
    \/ SpeakEnd
SpecPitch == InitSettingsOnly /\ [][NextPitch]_vars

\* The calls of ensureWaveOutHooks
InitHooks ==
    InitSettings({"409"}) /\ InitSpeech /\ InitDuck(BOOLEAN) /\ InitEngine({"ISpAudio"})
SpecHooks == InitHooks /\ [][Hooks]_vars

\* The calls sapi.dll makes of waveOutOpen and waveOutClose, from the state the
\* first SynthDriver.__init__ leaves: ensureWaveOutHooks has been called once.
InitWave ==
    /\ InitSettings({"409"}) /\ InitSpeech /\ InitEngine({"ISpAudio"})
    /\ duckingSupported \in BOOLEAN
    /\ \E o1, o2 \in HookOutcomes :
        LET e == ensureWaveOutHooks(<<>>, duckingSupported, o1, o2)
            o == [f \in HookNames |-> IF f = "waveOutOpen" THEN o1 ELSE o2]
        IN  /\ _waveOutHooks = e.hooks
            /\ hookAttempts = [f \in HookNames |-> IF f \in e.tried THEN 1 ELSE 0]
            /\ hookInstalls = [f \in HookNames |->
                                  IF f \in e.tried /\ ~FunctionHooker(o[f]).raised
                                  THEN 1 ELSE 0]
            /\ ensureRaised = e.raised
    /\ ensureCalls = 1
    /\ osOpen = {}
    /\ _duckersByHandle = EmptyDict
    /\ nCalls = 0
    /\ tpc = [t \in Threads |-> "idle"]
    /\ tloc = [t \in Threads |-> NoLocals]
    /\ nDuckers = 0
    /\ lastReturn = NoReturn
    /\ closedHandles = {}
    /\ overlapped = FALSE
SpecWave == InitWave /\ [][Wave]_vars

\* The calls the host makes on one driver, and the callbacks of the engine
InitEngineOnly ==
    InitSettings({"409"}) /\ InitSpeech /\ InitDuck({FALSE}) /\ InitEngine({"ISpAudio", "None"})
SpecEngine == InitEngineOnly /\ [][Engine]_vars

----------------------------------------------------------------------------
(* What the claims are stated with *)

\* the fragment is an opening or a closing tag of this name
IsTag(f, tag) == f[1] \in {"open", "close"} /\ f[2] = tag
MarkupHasTag(tl, tag) == \E k \in 1..Len(tl) : IsTag(tl[k], tag)

\* Reading the markup from the left: the tags open and not yet closed, and
\* whether each closing tag closed the tag opened last.
RECURSIVE Unwind(_, _)
Unwind(tl, stack) ==
    IF tl = <<>> THEN [ok |-> TRUE, stack |-> stack]
    ELSE IF Head(tl)[1] = "open" THEN Unwind(Tail(tl), Append(stack, Head(tl)[2]))
    ELSE IF Head(tl)[1] = "close"
    THEN IF stack # <<>> /\ stack[Len(stack)] = Head(tl)[2]
         THEN Unwind(Tail(tl), SubSeq(stack, 1, Len(stack) - 1))
         ELSE [ok |-> FALSE, stack |-> stack]
    ELSE Unwind(Tail(tl), stack)

\* the place of the last item of this kind among the first n, 0 when there is none
LastOfKind(kind, n) ==
    LET S == {i \in 1..n : speechSequence[i][1] = kind} IN
    IF S = {} THEN 0 ELSE CHOOSE i \in S : \A j \in S : j <= i

\* after the first n items: character mode is on; the volume / the rate is overridden
SpellOn(n) ==
    LET i == LastOfKind("CharacterModeCommand", n) IN i # 0 /\ speechSequence[i][2]
VolumeOn(n) ==
    LET i == LastOfKind("VolumeCommand", n) IN i # 0 /\ speechSequence[i][2][1] # speechSequence[i][2][2]
RateOn(n) ==
    LET i == LastOfKind("RateCommand", n) IN i # 0 /\ speechSequence[i][2][1] # speechSequence[i][2][2]

Running == pc \in {"loop", "done"}
Consumed == Len(speechSequence)
IsStr(i) == speechSequence[i][1] = "str"

\* the item emits literal text: a str, or a PhonemeCommand that has text
EmitsText(i) ==
    \/ speechSequence[i][1] = "str"
    \/ speechSequence[i][1] = "PhonemeCommand" /\ speechSequence[i][3] # <<>>

----------------------------------------------------------------------------
(* C1 *)

\* C1: whatever the items of the sequence, the markup is balanced.  While speak
\* runs, every closing tag closes the tag opened last and the tags left open are
\* exactly openedTags; when tts.Speak is called openedTags is empty and the text
\* passed has no tag left open.
C1_MarkupBalanced ==
    /\ pc # "raised"
    /\ Running =>
        /\ Unwind(textList, <<>>).ok
        /\ Unwind(textList, <<>>).stack = openedTags
    /\ pc = "done" =>
        /\ openedTags = <<>>
        /\ Len(spoken) = 1
        /\ spoken[1][1] = textList
        /\ Unwind(spoken[1][1], <<>>) = [ok |-> TRUE, stack |-> <<>>]

\* a sequence of MaxItems items was spoken whose markup closes three tags in a
\* row, after a flush in the middle that closed and reopened tags
C1_Witness ==
    /\ pc = "done"
    /\ Consumed = MaxItems
    /\ \E k \in 1..(Len(textList) - 2) :
        /\ textList[k][1] = "close" /\ textList[k + 1][1] = "close"
        /\ textList[k + 2][1] = "close"
    /\ \E k \in 1..(Len(textList) - 1) :
        textList[k][1] = "close" /\ textList[k + 1][1] = "open"

----------------------------------------------------------------------------
(* C2 *)

\* C2: when the two items consumed last are both str, their two fragments end
\* the markup next to each other: the second flush wrote no tag.
C2_NoTagsBetweenTexts ==
    (pc = "loop" /\ Consumed >= 2 /\ IsStr(Consumed) /\ IsStr(Consumed - 1)) =>
        /\ Len(textList) >= 2
        /\ textList[Len(textList)] = <<"text", Escape(speechSequence[Consumed][2])>>
        /\ textList[Len(textList) - 1] = <<"text", Escape(speechSequence[Consumed - 1][2])>>
        /\ ~tagsChanged

\* two str in a row, inside two open tags
C2_Witness ==
    /\ pc = "loop" /\ Consumed >= 3 /\ IsStr(Consumed) /\ IsStr(Consumed - 1)
    /\ Len(openedTags) >= 2

----------------------------------------------------------------------------
(* C3 *)

\* C3: speak never fails on a CharacterModeCommand; tags holds "spell" exactly
\* when the last CharacterModeCommand had state true; and when no str follows
\* a CharacterModeCommand(True) before character mode is turned off again, the
\* markup has no spell tag at all.
C3_SpellNetNoOp ==
    /\ pc # "raised"
    /\ pc = "loop" => (HasTag(tags, "spell") <=> SpellOn(Consumed))
    /\ Running =>
        ((\A j \in 1..Consumed : IsStr(j) => ~SpellOn(j - 1))
            => ~MarkupHasTag(textList, "spell"))

\* the sequence (CharacterModeCommand(True), CharacterModeCommand(False), str)
\* was spoken, then character mode was turned off once more
C3_Witness ==
    /\ pc = "done"
    /\ Consumed = MaxItems
    /\ speechSequence[1] = <<"CharacterModeCommand", TRUE>>
    /\ speechSequence[2] = <<"CharacterModeCommand", FALSE>>
    /\ IsStr(3)
    /\ speechSequence[4] = <<"CharacterModeCommand", FALSE>>
    /\ ~MarkupHasTag(textList, "spell")

----------------------------------------------------------------------------
(* C4 *)

\* C4: a VolumeCommand (RateCommand) of multiplier 1 removes the volume (rate)
\* entry of tags; every text emitted while the last VolumeCommand (RateCommand)
\* has multiplier 1 is emitted with no volume (rate) tag open; and when no str
\* lies between an override and its removal the markup has no such tag at all.
C4_MultiplierOneRemovesOverride ==
    /\ pc = "loop" => (HasTag(tags, "volume") <=> VolumeOn(Consumed))
    /\ pc = "loop" => (HasTag(tags, "rate") <=> RateOn(Consumed))
    /\ (pc = "loop" /\ Consumed >= 1 /\ EmitsText(Consumed)) =>
        /\ ~VolumeOn(Consumed) => \A k \in 1..Len(openedTags) : openedTags[k] # "volume"
        /\ ~RateOn(Consumed) => \A k \in 1..Len(openedTags) : openedTags[k] # "rate"
    /\ Running =>
        /\ (\A j \in 1..Consumed : IsStr(j) => ~VolumeOn(j - 1))
            => ~MarkupHasTag(textList, "volume")
        /\ (\A j \in 1..Consumed : IsStr(j) => ~RateOn(j - 1))
            => ~MarkupHasTag(textList, "rate")

----------------------------------------------------------------------------
(* C9 *)

\* the pronunciation can be translated: the voice is US English and every
\* symbol is the stress mark or has an entry in IPA_TO_SAPI
Translatable(ipa) ==
    /\ voiceLanguage = "409"
    /\ \A i \in 1..Len(ipa) : ipa[i] \in {"stress", "theta", "s"}

\* what the items contribute to the markup beside tags, bookmarks and silences:
\* per str its escaped text, per PhonemeCommand a pron with its text when it
\* can be translated, else its text when it has one, else nothing
RECURSIVE ExpectedContent(_)
ExpectedContent(seq) ==
    IF seq = <<>> THEN <<>>
    ELSE LET item == Head(seq) IN
         (IF item[1] = "str" THEN <<<<"text", Escape(item[2])>>>>
          ELSE IF item[1] = "PhonemeCommand"
          THEN (IF Translatable(item[2]) THEN <<<<"pron", item[3]>>>>
                ELSE IF item[3] # <<>> THEN <<<<"text", item[3]>>>>
                ELSE <<>>)
          ELSE <<>>)
         \o ExpectedContent(Tail(seq))

\* the text and pron fragments of the markup, a pron without its sym
RECURSIVE Content(_)
Content(tl) ==
    IF tl = <<>> THEN <<>>
    ELSE (IF Head(tl)[1] = "text" THEN <<Head(tl)>>
          ELSE IF Head(tl)[1] = "pron" THEN <<<<"pron", Head(tl)[3]>>>>
          ELSE <<>>)
         \o Content(Tail(tl))

\* C9: a PhonemeCommand never makes speak fail.  One that cannot be translated
\* puts no pron in the markup but exactly its text, or nothing when it has no
\* text; the items after it are compiled, and tts.Speak gets the markup.
C9_PhonemeFallsBack ==
    /\ pc # "raised"
    /\ Running => Content(textList) = ExpectedContent(speechSequence)
    /\ pc = "done" => Len(spoken) = 1 /\ spoken[1][1] = textList

\* with a US English voice, a PhonemeCommand with the unknown symbol k and the
\* text "cat", then one with no text, then a str: spoken as "cat" and the str
C9_Witness ==
    /\ pc = "done"
    /\ voiceLanguage = "409"
    /\ Consumed >= 3
    /\ speechSequence[1] = <<"PhonemeCommand", <<"s", "k">>, <<"c", "a", "t">>>>
    /\ speechSequence[2] = <<"PhonemeCommand", <<"k">>, <<>>>>
    /\ IsStr(3)
    /\ Content(spoken[1][1]) = <<<<"text", <<"c", "a", "t">>>>,
                                 <<"text", Escape(speechSequence[3][2])>>>>

----------------------------------------------------------------------------
(* C10 *)

\* the pitch tag speak starts with
PitchValue == tags[1][2][1][2]

\* C10: _percentToRate(p) is the floor of (p - 50) / 5 and lies in -10..10 for
\* p in 0..100, with 0 at 50 and 10 at 100; _percentToPitch(p) is the floor of
\* p / 2, less 25, and lies in -25..25, with 0 at 50.
C10_PercentConversions ==
    /\ lastRatePercent # -1 =>
        /\ 5 * ttsRate <= lastRatePercent - 50
        /\ lastRatePercent - 50 < 5 * ttsRate + 5
        /\ ttsRate \in -10..10
        /\ lastRatePercent = 50 => ttsRate = 0
        /\ lastRatePercent = 100 => ttsRate = 10
    /\ pc = "loop" =>
        /\ tags[1][1] = "pitch"
        /\ 2 * (PitchValue + 25) <= _pitch
        /\ _pitch < 2 * (PitchValue + 25) + 2
        /\ PitchValue \in -25..25
        /\ _pitch = 50 => PitchValue = 0

\* a rate below 50 that is no multiple of 5, and an odd pitch
C10_Witness ==
    /\ lastRatePercent = 49 /\ ttsRate = -1
    /\ pc = "loop" /\ _pitch = 1 /\ PitchValue = -25

----------------------------------------------------------------------------
(* C5 *)

\* C5: where ducking is supported and no call of hookSingle has failed, after
\* any number of calls of ensureWaveOutHooks each of the two functions has
\* been hooked exactly once, and _waveOutHooks holds the two hooks.
C5_HooksInstalledOnce ==
    (duckingSupported /\ ensureCalls >= 1 /\ hookAttempts = hookInstalls) =>
        /\ \A f \in HookNames : hookInstalls[f] = 1
        /\ _waveOutHooks = <<"waveOutOpen", "waveOutClose">>

\* ensureWaveOutHooks was called MaxEnsureCalls times and every hookSingle succeeded
C5_Witness ==
    /\ duckingSupported
    /\ ensureCalls = MaxEnsureCalls
    /\ hookAttempts = hookInstalls
    /\ \A f \in HookNames : hookInstalls[f] = 1

----------------------------------------------------------------------------
(* C6 *)

Idle == \A t \in Threads : tpc[t] = "idle"
BothHooked == Hooked("waveOutOpen") /\ Hooked("waveOutClose")

\* C6: no intercepted close lets an exception out, whether the dict has an
\* entry for the handle or not; and while the intercepted calls come one after
\* the other, the dict holds exactly the handles that are open: a handle closed
\* has no entry, and closing it again, or closing a handle never opened,
\* changes nothing.
C6_CloseIdempotent ==
    /\ lastReturn.op = "close" => ~lastReturn.exc
    /\ (BothHooked /\ ~overlapped /\ Idle) => DOMAIN _duckersByHandle = osOpen

\* the same handle is closed twice, one call after the other: the second
\* close returns an error code, and the dict is empty as the first close left it
C6_Witness ==
    /\ BothHooked /\ ~overlapped /\ Idle
    /\ lastReturn.op = "close"
    /\ lastReturn.res # 0
    /\ ~lastReturn.exc
    /\ lastReturn.h \in closedHandles
    /\ lastReturn.h \notin osOpen
    /\ nDuckers = 1
    /\ DOMAIN _duckersByHandle = {}

----------------------------------------------------------------------------
(* C7 *)

\* C7: when the intercepted open that returned last got a handle from the real
\* waveOutOpen, it returned 0 and the dict holds, for that handle, the
\* AudioDucker it made, enabled or not.
C7_OpenRecordsDucker ==
    (lastReturn.op = "open" /\ lastReturn.real = RealSuccess /\ lastReturn.ptr) =>
        /\ lastReturn.h \in Handles
        /\ lastReturn.res = 0
        /\ ~lastReturn.exc
        /\ lastReturn.h \in DOMAIN _duckersByHandle
        /\ _duckersByHandle[lastReturn.h].id = nDuckers

\* an open returned 0 and its ducker, which could not be enabled, is in the dict
C7_Witness ==
    /\ lastReturn.op = "open" /\ lastReturn.real = RealSuccess /\ lastReturn.ptr
    /\ lastReturn.res = 0
    /\ lastReturn.h \in DOMAIN _duckersByHandle
    /\ ~_duckersByHandle[lastReturn.h].enabled
    /\ _duckersByHandle[lastReturn.h].id = nDuckers

----------------------------------------------------------------------------
(* C8 *)

\* the intercepted call of thread t, whose real call failed, returns
FailedReturn(t) ==
    /\ tpc[t] # "idle"
    /\ tloc[t].real # RealSuccess
    /\ tpc'[t] = "idle"

\* C8: an intercepted call whose real call returned an error code or raised a
\* WindowsError returns that code and lets no exception out, and its return
\* leaves the dict as it was: no ducker is made, no entry is removed.
C8_FailureIsStatusCode ==
    /\ [](lastReturn.real # RealSuccess =>
            /\ lastReturn.res = lastReturn.real.value
            /\ lastReturn.res # 0
            /\ ~lastReturn.exc)
    /\ [][\A t \in Threads : FailedReturn(t) =>
            /\ _duckersByHandle' = _duckersByHandle
            /\ nDuckers' = nDuckers]_vars

\* the real waveOutClose raised for a handle that has a ducker: the close
\* returned the winerror and the ducker is still in the dict
C8_Witness ==
    /\ lastReturn.op = "close"
    /\ lastReturn.real.raised
    /\ lastReturn.res = lastReturn.real.value
    /\ ~lastReturn.exc
    /\ lastReturn.h \in DOMAIN _duckersByHandle
    /\ Idle

----------------------------------------------------------------------------
(* C11 *)

\* the locals of speak as one value
Locals(tl, tg, tc, ot) == [textList |-> tl, tags |-> tg, tagsChanged |-> tc, openedTags |-> ot]

\* what one item makes of the locals of speak, read off the branches of the loop
CompileItem(st, item) ==
    LET kind == item[1]
        o == outputTags(st.textList, st.openedTags, st.tagsChanged, st.tags)
        c == _convertPhoneme(voiceLanguage, item[2])
    IN
    IF kind = "str"
    THEN Locals(Append(o.textList, <<"text", Escape(item[2])>>), st.tags, o.tagsChanged,
                o.openedTags)
    ELSE IF kind = "IndexCommand"
    THEN [st EXCEPT !.textList = Append(@, <<"bookmark", item[2]>>)]
    ELSE IF kind = "BreakCommand"
    THEN [st EXCEPT !.textList = Append(@, <<"silence", item[2]>>)]
    ELSE IF kind = "CharacterModeCommand"
    THEN [st EXCEPT !.tags = IF item[2] THEN SetTag(@, "spell", <<>>)
                             ELSE SelectSeq(@, LAMBDA e : e[1] # "spell"),
                    !.tagsChanged = TRUE]
    ELSE IF kind = "PitchCommand"
    THEN [st EXCEPT !.tags = SetTag(@, "pitch",
                        <<<<"absmiddle", _percentToPitch(Scaled(_pitch, item[2]))>>>>),
                    !.tagsChanged = TRUE]
    ELSE IF kind = "VolumeCommand"
    THEN [st EXCEPT !.tags = IF IsOne(item[2]) THEN SelectSeq(@, LAMBDA e : e[1] # "volume")
                             ELSE SetTag(@, "volume",
                                         <<<<"level", Scaled(ttsVolume, item[2])>>>>),
                    !.tagsChanged = TRUE]
    ELSE IF kind = "RateCommand"
    THEN [st EXCEPT !.tags = IF IsOne(item[2]) THEN SelectSeq(@, LAMBDA e : e[1] # "rate")
                             ELSE SetTag(@, "rate",
                                  <<<<"absspeed", _percentToRate(Scaled(_get_rate, item[2]))>>>>),
                    !.tagsChanged = TRUE]
    ELSE IF kind = "PhonemeCommand"
    THEN [st EXCEPT !.textList = IF ~c.raised THEN Append(@, <<"pron", c.sym, item[3]>>)
                                 ELSE IF item[3] # <<>> THEN Append(@, <<"text", item[3]>>)
                                 ELSE @]
    ELSE st

\* the locals after the items of seq, from the locals speak starts with
RECURSIVE Compile(_)
Compile(seq) ==
    IF seq = <<>>
    THEN Locals(<<>>, <<<<"pitch", <<<<"absmiddle", _percentToPitch(_pitch)>>>>>>>>, TRUE, <<>>)
    ELSE CompileItem(Compile(SubSeq(seq, 1, Len(seq) - 1)), seq[Len(seq)])

\* the markup speak passes on: the tags left open are closed
CompileEnd(st) == st.textList \o CloseTags(st.openedTags)

\* the sequence without its items of no known kind and its unsupported commands
Known(seq) == SelectSeq(seq, LAMBDA item : item[1] \notin {"unknown", "SpeechCommand"})

\* C11: a call of speak makes exactly one call of tts.Speak, when the sequence
\* has ended, with the flags IsXML and Async and without PurgeBeforeSpeak, and
\* with the whole markup.  An item of unknown kind or an unsupported
\* SpeechCommand does not end speak, and the locals of speak after any number
\* of items, and the markup passed on, are those the sequence without such
\* items gives.
C11_OneRequestUnknownSkipped ==
    /\ pc # "raised"
    /\ pc \in {"idle", "loop"} => spoken = <<>>
    /\ pc = "loop" =>
        Locals(textList, tags, tagsChanged, openedTags) = Compile(Known(speechSequence))
    /\ pc = "done" =>
        /\ Len(spoken) = 1
        /\ spoken[1][2] = {IsXML, Async}
        /\ PurgeBeforeSpeak \notin spoken[1][2]
        /\ spoken[1][1] = textList
        /\ spoken[1][1] = CompileEnd(Compile(Known(speechSequence)))

\* an item of unknown kind, CharacterModeCommand(True), an unsupported
\* command, a str: spoken with the str inside the spell tag
C11_Witness ==
    /\ pc = "done"
    /\ Consumed = 4
    /\ speechSequence[1] = <<"unknown">>
    /\ speechSequence[2] = <<"CharacterModeCommand", TRUE>>
    /\ speechSequence[3] = <<"SpeechCommand">>
    /\ IsStr(4)
    /\ Len(spoken) = 1
    /\ MarkupHasTag(spoken[1][1], "spell")
    /\ Unwind(spoken[1][1], <<>>) = [ok |-> TRUE, stack |-> <<>>]

----------------------------------------------------------------------------
(* C12 *)

\* the calls that the call made last added to engineLog
LastCalls == SubSeq(engineLog, lastOp.logged + 1, Len(engineLog))

\* C12: cancel ends with tts.Speak(None, Async | PurgeBeforeSpeak), with or
\* without an audio stream; with one, it makes exactly one call before that,
\* setState(STOP), and leaves the stream stopped.  pause makes no call on tts:
\* with an audio stream it makes the one call setState(PAUSE) for true and
\* setState(RUN) for false, without one it makes no call at all.  Neither
\* raises a notification, and without an audio stream no setState is ever made.
C12_CancelStopsThenPurges ==
    /\ lastOp.op = "cancel" =>
        /\ LastCalls # <<>>
        /\ LastCalls[Len(LastCalls)] = SpeakCall("None", {Async, PurgeBeforeSpeak})
        /\ ttsAudioStream # "None" =>
            /\ LastCalls = <<SetStateCall("STOP"),
                             SpeakCall("None", {Async, PurgeBeforeSpeak})>>
            /\ audioState = "STOP"
        /\ ttsAudioStream = "None" => Len(LastCalls) = 1
        /\ Len(notified) = lastOp.events
    /\ lastOp.op = "pause" =>
        /\ ttsAudioStream # "None" =>
            /\ LastCalls = <<SetStateCall(IF lastOp.arg = 1 THEN "PAUSE" ELSE "RUN")>>
            /\ audioState = (IF lastOp.arg = 1 THEN "PAUSE" ELSE "RUN")
        /\ ttsAudioStream = "None" => LastCalls = <<>>
        /\ Len(notified) = lastOp.events
    /\ ttsAudioStream = "None" =>
        /\ audioState = "CLOSED"
        /\ \A k \in 1..Len(engineLog) : engineLog[k].call = "Speak"

\* pause(True), pause(False), then cancel, on a driver that has an audio stream
C12_Witness ==
    /\ lastOp.op = "cancel"
    /\ ttsAudioStream # "None"
    /\ engineLog = <<SetStateCall("PAUSE"), SetStateCall("RUN"), SetStateCall("STOP"),
                     SpeakCall("None", {Async, PurgeBeforeSpeak})>>
    /\ audioState = "STOP"

----------------------------------------------------------------------------
(* C13 *)

\* the notifications that the callback made last raised
LastNotified == SubSeq(notified, lastOp.events + 1, Len(notified))

\* C13: a Bookmark callback that finds the driver alive raises exactly one
\* synthIndexReached with its bookmarkId, an EndStream callback exactly one
\* synthDoneSpeaking; a callback that comes when the driver is gone raises
\* nothing and calls nothing; and no callback comes after terminate, so the
\* notifications are as many as the callbacks that found the driver alive.
C13_CallbacksOnlyWhenAlive ==
    /\ lastOp.op = "Bookmark" =>
        /\ lastOp.alive =>
            LastNotified = <<[name |-> "synthIndexReached", index |-> lastOp.arg]>>
        /\ ~lastOp.alive => LastNotified = <<>>
        /\ Len(engineLog) = lastOp.logged
    /\ lastOp.op = "EndStream" =>
        /\ lastOp.alive => LastNotified = <<[name |-> "synthDoneSpeaking", index |-> -1]>>
        /\ ~lastOp.alive => LastNotified = <<>>
        /\ Len(engineLog) = lastOp.logged
    /\ lastOp.op \notin {"Bookmark", "EndStream"} => LastNotified = <<>>
    /\ lastOp.op \in {"Bookmark", "EndStream"} => _eventsConnection # "None"

\* Bookmark 7 reached a live driver; then the driver went, and Bookmark 9 and
\* EndStream came while its connection was still there: one notification
C13_Witness ==
    /\ lastOp.op = "EndStream"
    /\ ~lastOp.alive
    /\ nOps = 4
    /\ _eventsConnection # "None"
    /\ notified = <<[name |-> "synthIndexReached", index |-> 7]>>

----------------------------------------------------------------------------
(* C14 *)

\* Reading the markup from the left: the tags open at its end with their
\* attributes, in the form of the dict tags
RECURSIVE OpenState(_, _)
OpenState(tl, stack) ==
    IF tl = <<>> THEN stack
    ELSE LET f == Head(tl) IN
         IF f[1] = "open" THEN OpenState(Tail(tl), Append(stack, <<f[2], <<>>>>))
         ELSE IF f[1] = "attr"
         THEN OpenState(Tail(tl),
                        [stack EXCEPT ![Len(stack)] = <<@[1], Append(@[2], <<f[2], f[3]>>)>>])
         ELSE IF f[1] = "close" THEN OpenState(Tail(tl), SubSeq(stack, 1, Len(stack) - 1))
         ELSE OpenState(Tail(tl), stack)

\* C14: when the item consumed last put literal text in the markup (a str, or
\* a PhonemeCommand with its text, inside a pron or as the fallback), the tag
\* changes pending were flushed before it: tagsChanged is clear and the tags
\* open around the text are the tags of the dict tags, with their attributes.
C14_TextAfterFlush ==
    (pc = "loop" /\ Consumed >= 1 /\ EmitsText(Consumed)) =>
        /\ ~tagsChanged
        /\ openedTags = TagNames(tags)
        /\ OpenState(textList, <<>>) = tags

----------------------------------------------------------------------------
(* C15 *)

\* the place in the markup of the text or pron fragment before its last
\* fragment, 0 when there is none
PrevText ==
    LET S == {i \in 1..(Len(textList) - 1) : textList[i][1] \in {"text", "pron"}} IN
    IF S = {} THEN 0 ELSE CHOOSE i \in S : \A j \in S : j <= i

\* C15 as claimed: when a str is consumed and the tags of the dict tags, with
\* their attributes, are the tags that were open at the text fragment before
\* it, no tag is closed or opened between the two fragments.
C15_NoChurnWhenStateEqual ==
    (/\ pc = "loop" /\ Consumed >= 1 /\ IsStr(Consumed)
     /\ PrevText > 0
     /\ OpenState(SubSeq(textList, 1, PrevText), <<>>) = tags)
    => \A i \in (PrevText + 1)..(Len(textList) - 1) :
           textList[i][1] \notin {"open", "attr", "gt", "close"}

\* the item changes the dict tags or assigns to it
IsTagDirective(i) ==
    speechSequence[i][1] \in {"CharacterModeCommand", "PitchCommand", "VolumeCommand",
                              "RateCommand"}

\* the str consumed last was written right after tags were opened
Flushed == Len(textList) >= 2 /\ textList[Len(textList) - 1] = <<"gt">>

\* C15 as amended: a CharacterModeCommand, PitchCommand, VolumeCommand or
\* RateCommand sets tagsChanged whether it changed the dict tags or not; and
\* when a str is consumed after an earlier str, tags are closed and opened
\* before it exactly when one of those commands lies between the two.
C15_DirectiveAlwaysDirties ==
    /\ (pc = "loop" /\ Consumed >= 1 /\ IsTagDirective(Consumed)) => tagsChanged
    /\ (pc = "loop" /\ Consumed >= 2 /\ IsStr(Consumed)
        /\ LastOfKind("str", Consumed - 1) > 0) =>
        /\ Flushed <=> \E i \in (LastOfKind("str", Consumed - 1) + 1)..(Consumed - 1) :
                           IsTagDirective(i)
        /\ OpenState(textList, <<>>) = tags

\* a str, CharacterModeCommand(False) while character mode is off, a str: the
\* pitch tag is closed and opened again with the same value
C15_Witness ==
    /\ pc = "loop"
    /\ Consumed = 3
    /\ IsStr(1) /\ speechSequence[2] = <<"CharacterModeCommand", FALSE>> /\ IsStr(3)
    /\ textList = OpenTags(tags) \o <<<<"text", Escape(speechSequence[1][2])>>>>
                  \o CloseTags(<<"pitch">>) \o OpenTags(tags)
                  \o <<<<"text", Escape(speechSequence[3][2])>>>>

----------------------------------------------------------------------------
(* C16 *)

\* the multiplier of the PitchCommand consumed last, <<1, 1>> when there is none
LastPitchMultiplier ==
    LET i == LastOfKind("PitchCommand", Consumed) IN
    IF i = 0 THEN <<1, 1>> ELSE speechSequence[i][2]

\* C16: inside the loop the dict tags has exactly one pitch entry, and it is
\* the first; its absmiddle is half the pitch (rounded down) less 25, where
\* the pitch is _pitch, or after a PitchCommand the integer part of _pitch
\* times the multiplier of the last one.  After a str the first tag open is
\* the only pitch tag open; and in the markup the pitch tag is opened first
\* wherever tags are opened, and nowhere else.
C16_PitchAlwaysFirst ==
    /\ pc = "loop" =>
        /\ Cardinality({k \in 1..Len(tags) : tags[k][1] = "pitch"}) = 1
        /\ tags[1] = <<"pitch",
                       <<<<"absmiddle",
                           ((IF LastOfKind("PitchCommand", Consumed) = 0 THEN _pitch
                             ELSE (_pitch * LastPitchMultiplier[1]) \div LastPitchMultiplier[2])
                            \div 2) - 25>>>>>>
    /\ (pc = "loop" /\ Consumed >= 1 /\ IsStr(Consumed)) =>
        /\ openedTags[1] = "pitch"
        /\ Cardinality({k \in 1..Len(openedTags) : openedTags[k] = "pitch"}) = 1
        /\ OpenState(textList, <<>>)[1] = tags[1]
    /\ Running =>
        \A k \in 1..Len(textList) :
            textList[k][1] = "open" =>
                (textList[k][2] = "pitch" <=> (k = 1 \/ textList[k - 1] # <<"gt">>))

\* pitch 33: CharacterModeCommand(True), PitchCommand(1.5), a str.  The text
\* is inside <pitch absmiddle="-1"><spell>
C16_Witness ==
    /\ pc = "loop"
    /\ _pitch = 33
    /\ speechSequence = <<<<"CharacterModeCommand", TRUE>>, <<"PitchCommand", <<3, 2>>>>,
                          <<"str", <<"a", "<", "b">>>>>>
    /\ tags = <<<<"pitch", <<<<"absmiddle", -1>>>>>>, <<"spell", <<>>>>>>
    /\ openedTags = <<"pitch", "spell">>

----------------------------------------------------------------------------
(* C17 *)

\* C17 as claimed: whatever the calls of ensureWaveOutHooks made and however
\* they ended, hookSingle was called at most once for each of the two
\* functions, and never where ducking is not supported.
C17_AtMostOneAttempt ==
    /\ \A f \in HookNames : hookAttempts[f] <= 1
    /\ ~duckingSupported => \A f \in HookNames : hookAttempts[f] = 0

\* C17 as amended: each function is hooked at most once; where ducking is not
\* supported hookSingle is never called; hookSingle is called at most once for
\* waveOutClose; and once waveOutOpen is hooked no call of ensureWaveOutHooks
\* calls hookSingle again.  (While hooking waveOutOpen fails, each call tries
\* it again.)
C17_AtMostOneInstall ==
    /\ [](/\ \A f \in HookNames : hookInstalls[f] <= 1
          /\ ~duckingSupported =>
                /\ \A f \in HookNames : hookAttempts[f] = 0
                /\ _waveOutHooks = <<>>
          /\ hookAttempts["waveOutClose"] <= 1
          /\ hookAttempts["waveOutOpen"] <= ensureCalls)
    /\ [][Hooked("waveOutOpen") =>
            /\ hookAttempts' = hookAttempts
            /\ hookInstalls' = hookInstalls
            /\ _waveOutHooks' = _waveOutHooks
            /\ ~ensureRaised']_vars

\* hooking waveOutOpen failed twice, then both functions were hooked, and
\* ensureWaveOutHooks was called again after that
C17_Witness ==
    /\ duckingSupported
    /\ hookAttempts = [f \in HookNames |-> IF f = "waveOutOpen" THEN 3 ELSE 1]
    /\ hookInstalls = [f \in HookNames |-> 1]
    /\ _waveOutHooks = <<"waveOutOpen", "waveOutClose">>
    /\ ensureCalls >= 5

----------------------------------------------------------------------------
(* C18 *)

\* C18: after any call of ensureWaveOutHooks, whether it returned or raised,
\* waveOutOpen and waveOutClose are both hooked or neither is, a function is
\* in _waveOutHooks exactly when it was hooked, and a call that raised left
\* nothing hooked.
C18_NeverHalfHooked ==
    ensureCalls >= 1 =>
        /\ Hooked("waveOutOpen") <=> Hooked("waveOutClose")
        /\ \A f \in HookNames : Hooked(f) <=> hookInstalls[f] = 1
        /\ ensureRaised => _waveOutHooks = <<>>

----------------------------------------------------------------------------
(* C19 *)

\* C19: with both functions hooked, whenever no intercepted call is in
\* progress the dict has an entry for exactly the handles that are open: one
\* for every handle opened and not closed since, none for a handle that is
\* closed, also when winmm gives a handle out again that was closed before.
C19_RegistryMatchesOpenHandles ==
    (BothHooked /\ Idle) => DOMAIN _duckersByHandle = osOpen

----------------------------------------------------------------------------
(* C20 *)

\* the entry of h is that of the device now open under h: h is open, and no
\* intercepted open that got h has its entry still to make
Current(h) ==
    /\ h \in osOpen
    /\ h \in DOMAIN _duckersByHandle
    /\ \A u \in Threads : ~(tpc[u] = "open" /\ tloc[u].h = h)

\* C20: the steps that insert into the dict and remove from it exclude each
\* other in effect: however the intercepted calls of the two threads overlap,
\* the step in which a call ends loses no entry of a device that is open and
\* changes no entry but that of its own handle.
C20_NoEntryLost ==
    [][\A t \in Threads :
        (tpc[t] # "idle" /\ tpc'[t] = "idle") =>
            \A h \in Handles :
                Current(h) =>
                    /\ h \in DOMAIN _duckersByHandle'
                    /\ h # tloc[t].h => _duckersByHandle'[h] = _duckersByHandle[h]]_vars

====
